---- MODULE Spec2Model ----
(***************************************************************************)
(* Model of the rate-limited request scheduler                             *)
(* (src/src/services/rateLimitManager.ts, class RateLimitManager).         *)
(*                                                                         *)
(* Time.  Date.now() is a monotone clock.  Every stored timestamp t is     *)
(* kept as its age  now - t, counted in ticks of 500 ms and saturated at   *)
(* the window length: the code only ever compares a timestamp with         *)
(* now - windowMs (cleanupOldRequests) or subtracts it from now right      *)
(* after a cleanup (getWaitTime, getStatus), so an age beyond the window   *)
(* is never told apart from an age equal to it (the age of a queued        *)
(* request's timestamp, read by getQueueStats only, saturates alike).      *)
(* Tick advances the clock by one tick: every age grows by one and every   *)
(* pending timer loses one.                                                *)
(*                                                                         *)
(* Scheduling.  JavaScript runs each callback to its next await.  A drain  *)
(* loop (an activation of processQueue) is suspended either in             *)
(* `await request.execute()` (pc = "exec") or in `await this.sleep(..)`    *)
(* (pc = "sleep"); one atomic step runs from a resumption to the next      *)
(* suspension or to the loop's exit.                                       *)
(*                                                                         *)
(* Data client.  The second part models PolygonApiService                  *)
(* (src/src/services/polygonApi.ts), whose domain calls hand one request   *)
(* function each to the scheduler, and the retry option of the query hooks *)
(* (src/src/hooks/useStockData.ts).                                        *)
(*                                                                         *)
(* App state.  The third part models appReducer                            *)
(* (src/src/contexts/AppContext.tsx), the reducer behind the selection of  *)
(* stocks.                                                                 *)
(***************************************************************************)
EXTENDS Integers, Sequences, FiniteSets, TLC

\* ---------------------------------------------------------------- bounds
MaxItems == 3        \* execute() calls modelled (requestCounter is capped here)
MaxQuota == 2        \* config.maxRequests is drawn from 1..MaxQuota
Window == 3          \* config.windowMs, in ticks

\* Math.max(timeToWait, 1000): the floor of 1000 ms is 2 ticks of 500 ms
MinWait == 2

\* the execution time every work item takes, in ticks, where durations are
\* taken equal
ExecDuration == 1

\* `return failureCount < 2` of the retry options
MaxRetries == 2

\* failure counts the retry option is asked about: 0..MaxFailureCount
MaxFailureCount == 3

Items == 1..MaxItems
\* Activations of processQueue.  Each one alive is suspended holding a request
\* or was started by an execute(), so no more than MaxItems are ever alive.
Loops == Items

\* What the executeFn of request id can produce: its own value (promise
\* fulfilled) or its own error (promise rejected).
Outcomes(id) == {[kind |-> "value", val |-> id], [kind |-> "error", val |-> id]}

QueueClearedMsg == 0 - 1   \* stands for new Error('Request queue cleared')
NoOutcome == [kind |-> "none", val |-> 0]
NoHandle == [st |-> "none", val |-> 0]
PendingHandle == [st |-> "pending", val |-> 0]

VARIABLES
    config,          \* RateLimitConfig {maxRequests, windowMs}
    requests,        \* this.requests: ages of the recorded dispatch timestamps
    queue,           \* this.queue: QueuedRequests {id, age of timestamp}
    processing,      \* this.processing
    requestCounter,  \* this.requestCounter
    loops,           \* the activations of processQueue: pc, request held, timer, result
    handle,          \* the promise returned by execute(), per request
    settleCount,     \* history: calls of resolve/reject per request
    execCount,       \* history: calls of request.execute() per request
    produced,        \* history: what the request's executeFn produced
    dispatchOrder,   \* history: ids in the order their executeFn was started
    dispAge,         \* history: age of each request's dispatch (-1: not dispatched)
    fetchStarted,    \* history: fetch() calls made by each request's executeFn
    client,          \* one domain call of PolygonApiService, from call to retry decision
    app              \* the AppState held by useReducer(appReducer, initialState)

vars == <<config, requests, queue, processing, requestCounter, loops, handle,
          settleCount, execCount, produced, dispatchOrder, dispAge, fetchStarted,
          client, app>>

Min(a, b) == IF a < b THEN a ELSE b
Max(a, b) == IF a > b THEN a ELSE b

RECURSIVE SeqMax(_)
SeqMax(s) == IF Len(s) = 0 THEN 0 ELSE Max(Head(s), SeqMax(Tail(s)))

RECURSIVE Filter(_, _)
Filter(s, bound) ==
    IF Len(s) = 0 THEN <<>>
    ELSE IF Head(s) < bound THEN <<Head(s)>> \o Filter(Tail(s), bound)
    ELSE Filter(Tail(s), bound)

IdleLoop == [pc |-> "idle", request |-> 0, wait |-> 0, result |-> NoOutcome]

\* ------------------------------------------------------- pure functions

\* variant: the filtered list is not stored back
CleanupKeepsAll(reqs) == reqs

\* cleanupOldRequests: keep timestamp > now - windowMs, i.e. age < windowMs
CleanupOldRequests(reqs) == Filter(reqs, config.windowMs)

\* variant: the admission test off by one
CanMakeRequestOffByOne(reqs) == Len(reqs) <= config.maxRequests

\* variant: admission is never refused
CanMakeRequestAlways(reqs) == TRUE

\* canMakeRequest: this.requests.length < this.config.maxRequests
CanMakeRequest(reqs) == Len(reqs) < config.maxRequests

\* variant: the wait without its floor
GetWaitTimeNoFloor(reqs) ==
    IF Len(reqs) = 0 THEN 0 ELSE config.windowMs - SeqMax(reqs)

\* variant: always the floor
GetWaitTimeFloorOnly(reqs) == IF Len(reqs) = 0 THEN 0 ELSE MinWait

\* getWaitTime: Math.min(...requests) is the timestamp of greatest age
GetWaitTime(reqs) ==
    IF Len(reqs) = 0 THEN 0
    ELSE Max(config.windowMs - SeqMax(reqs), MinWait)

\* variant: the dispatch timestamp is not recorded
RecordRequestSkipped(reqs) == reqs

\* this.requests.push(Date.now()): a timestamp of age 0
RecordRequest(reqs) == Append(reqs, 0)

\* variant: the head is read but not removed
ShiftRestPeek(q) == q

\* this.queue.shift(): the queue left behind
ShiftRest(q) == Tail(q)

\* variant: the drain loop takes the request at the far end of the queue
ShiftHeadLast(q) == q[Len(q)].id

\* this.queue.shift(): the request taken
ShiftHead(q) == Head(q).id

\* variant: unshift instead of push
PushFront(q, id) == <<[id |-> id, age |-> 0]>> \o q

\* this.queue.push(queuedRequest), timestamp: Date.now()
Push(q, id) == Append(q, [id |-> id, age |-> 0])

\* the ids of the requests in the queue
QueuedIds(q) == {q[k].id : k \in 1..Len(q)}

\* variant: the catch block resolves with the error
SettleSwallowsError(out) == [st |-> "resolved", val |-> out.val]

\* try { resolve(await execute()) } catch (error) { reject(error) }
SettleWith(out) ==
    IF out.kind = "value" THEN [st |-> "resolved", val |-> out.val]
    ELSE [st |-> "rejected", val |-> out.val]

\* variant: a failed call gives its quota slot back
RequestsAfterSettleRefund(reqs, out) ==
    IF out.kind = "error" /\ Len(reqs) > 0 THEN SubSeq(reqs, 1, Len(reqs) - 1) ELSE reqs

\* the catch block leaves this.requests as it is
RequestsAfterSettle(reqs, out) == reqs

\* variant: the requests already dispatched are rejected too
ClearTargetsWithInFlight(q, lp) ==
    QueuedIds(q) \cup {lp[l].request : l \in {k \in DOMAIN lp : lp[k].pc \in {"exec", "settle"}}}

\* clearQueue: this.queue.forEach(request => request.reject(...))
ClearTargets(q, lp) == QueuedIds(q)

\* variant: the first queued request stays in the queue
ClearedQueueKeepsHead(q) == IF Len(q) > 0 THEN <<Head(q)>> ELSE <<>>

\* variant: the queue is not emptied
ClearedQueueKept(q) == q

\* clearQueue: this.queue = []
ClearedQueue(q) == <<>>

\* clearQueue: this.processing = false
ClearedProcessing(p) == FALSE

\* variant: the executeFn retries its fetch once
FetchesPerCallRetry == 1 + 1

\* The executeFn handed to execute() by getAllTickers / getStockPrices calls
\* fetchWithTimeout once, synchronously on its invocation, inside no loop.
FetchesPerCall == 1

\* no domain call of the data client under way
IdleClient == [pc |-> "idle"]

\* ------------------------------------------------------------- app state
\* appReducer (src/src/contexts/AppContext.tsx).  A Stock is kept as its
\* symbol, an error text as the list of its parts, null as the empty list;
\* of AppState the fields selectedStocks, error and loading are kept.

MAX_STOCKS == 3
Symbols == {"GOOGL", "NVDA", "AAPL", "MSFT"}
DEFAULT_STOCKS == <<"GOOGL", "NVDA">>
NoError == <<>>
ErrorTexts == {NoError, <<"failed to load">>}

initialState == [selectedStocks |-> DEFAULT_STOCKS, error |-> NoError, loading |-> FALSE]

AppActions ==
    [type : {"ADD_STOCK", "REMOVE_STOCK"}, payload : Symbols]
    \cup [type : {"SET_LOADING"}, payload : BOOLEAN]
    \cup [type : {"SET_ERROR"}, payload : ErrorTexts]
    \cup [type : {"SET_DATE_RANGE", "SET_SMA_PERIOD", "SET_PRICE_TYPE", "SET_CHART_DATA",
                  "SET_STOCK_SUGGESTIONS", "RESET_STATE", "UNKNOWN"},
          payload : {"any"}]

\* variant: the duplicate test never fires
IsSelectedNever(stocks, symbol) == FALSE

\* state.selectedStocks.some(stock => stock.symbol === action.payload.symbol)
IsSelected(stocks, symbol) == \E k \in 1..Len(stocks) : stocks[k] = symbol

\* selectedStocks.filter(stock => stock.symbol !== action.payload)
RECURSIVE WithoutSymbol(_, _)
WithoutSymbol(stocks, symbol) ==
    IF Len(stocks) = 0 THEN <<>>
    ELSE IF Head(stocks) # symbol
    THEN <<Head(stocks)>> \o WithoutSymbol(Tail(stocks), symbol)
    ELSE WithoutSymbol(Tail(stocks), symbol)

appReducer(state, action) ==
    CASE action.type = "ADD_STOCK" ->
            IF IsSelected(state.selectedStocks, action.payload)
            THEN [state EXCEPT !.error = <<action.payload, " is already selected">>]
            ELSE IF Len(state.selectedStocks) >= MAX_STOCKS
            THEN [state EXCEPT !.error = <<"Maximum ", "MAX_STOCKS", " stocks allowed">>]
            ELSE [state EXCEPT !.selectedStocks = Append(@, action.payload),
                               !.error = NoError]
      [] action.type = "REMOVE_STOCK" ->
            [state EXCEPT !.selectedStocks = WithoutSymbol(@, action.payload),
                          !.error = NoError]
      [] action.type \in {"SET_DATE_RANGE", "SET_SMA_PERIOD"} ->
            [state EXCEPT !.error = NoError]
      [] action.type \in {"SET_PRICE_TYPE", "SET_STOCK_SUGGESTIONS"} -> state
      [] action.type = "SET_CHART_DATA" ->
            [state EXCEPT !.loading = FALSE, !.error = NoError]
      [] action.type = "SET_LOADING" ->
            [state EXCEPT !.loading = action.payload,
                          !.error = IF action.payload THEN NoError ELSE @]
      [] action.type = "SET_ERROR" ->
            [state EXCEPT !.error = action.payload, !.loading = FALSE]
      [] action.type = "RESET_STATE" ->
            [selectedStocks |-> <<>>, error |-> NoError, loading |-> FALSE]
      [] OTHER -> state

\* variant: processQueue returns at once
MayStartLoopRefused(p, q) == FALSE

\* processQueue's guard: if (this.processing || this.queue.length === 0) return
MayStartLoop(p, q) == ~p /\ Len(q) > 0

RECURSIVE SeqMin(_)
SeqMin(s) == IF Len(s) = 1 THEN Head(s) ELSE Min(Head(s), SeqMin(Tail(s)))

RECURSIVE SeqSum(_)
SeqSum(s) == IF Len(s) = 0 THEN 0 ELSE Head(s) + SeqSum(Tail(s))

\* variant: the newest timestamp instead of the oldest
NextAvailableTimeNewest(reqs) ==
    IF Len(reqs) > 0 THEN config.windowMs - SeqMin(reqs) ELSE 0

\* getStatus().nextAvailableTime, as its distance from now:
\* Math.min(...requests) + windowMs - now = windowMs - (greatest age);
\* Date.now() - now = 0
NextAvailableTime(reqs) ==
    IF Len(reqs) > 0 THEN config.windowMs - SeqMax(reqs) ELSE 0

\* variant: getStatus forgets every timestamp
GetStatusRequestsReset(reqs) == <<>>

\* this.requests after getStatus(): its first statement is
\* this.cleanupOldRequests()
GetStatusRequests(reqs) == CleanupOldRequests(reqs)

\* variant: getStatus without its leading cleanupOldRequests()
GetStatusResultStale(reqs, q) ==
    [requestsInWindow  |-> Len(reqs),
     maxRequests       |-> config.maxRequests,
     queueLength       |-> Len(q),
     canMakeRequest    |-> CanMakeRequest(reqs),
     nextAvailableTime |-> NextAvailableTime(reqs)]

\* getStatus(): cleanupOldRequests(), then the object built from the fields
GetStatusResult(reqs, q) ==
    LET clean == CleanupOldRequests(reqs) IN
    [requestsInWindow  |-> Len(clean),
     maxRequests       |-> config.maxRequests,
     queueLength       |-> Len(q),
     canMakeRequest    |-> CanMakeRequest(clean),
     nextAvailableTime |-> NextAvailableTime(clean)]

\* const waitTimes = this.queue.map(req => now - req.timestamp)
WaitTimes(q) == [k \in 1..Len(q) |-> q[k].age]

\* variant: the youngest waiting time instead of the oldest
GetQueueStatsResultYoungest(q) ==
    LET waitTimes == WaitTimes(q) IN
    [totalQueued      |-> Len(q),
     averageWaitTime  |-> IF Len(waitTimes) > 0
                          THEN <<SeqSum(waitTimes), Len(waitTimes)>>
                          ELSE <<0, 1>>,
     oldestRequestAge |-> IF Len(waitTimes) > 0 THEN SeqMin(waitTimes) ELSE 0]

\* getQueueStats(); the quotient averageWaitTime is kept as the pair
\* <<numerator, denominator>>, the number 0 as <<0, 1>>
GetQueueStatsResult(q) ==
    LET waitTimes == WaitTimes(q) IN
    [totalQueued      |-> Len(q),
     averageWaitTime  |-> IF Len(waitTimes) > 0
                          THEN <<SeqSum(waitTimes), Len(waitTimes)>>
                          ELSE <<0, 1>>,
     oldestRequestAge |-> IF Len(waitTimes) > 0 THEN SeqMax(waitTimes) ELSE 0]

TypeOK ==
    /\ config \in [maxRequests : 1..MaxQuota, windowMs : {Window}]
    /\ requests \in Seq(0..Window)
    /\ queue \in Seq([id : Items, age : 0..Window])
    /\ processing \in BOOLEAN
    /\ requestCounter \in 0..MaxItems
    /\ \A l \in Loops : loops[l].pc \in {"idle", "exec", "settle", "sleep"}
    /\ fetchStarted \in [Items -> Nat]
    /\ client.pc \in {"idle", "fetching", "settled", "decided", "constructing",
                     "failed"}

Init ==
    /\ config \in [maxRequests : 1..MaxQuota, windowMs : {Window}]
    /\ requests = <<>>
    /\ queue = <<>>
    /\ processing = FALSE
    /\ requestCounter = 0
    /\ loops = [l \in Loops |-> IdleLoop]
    /\ handle = [i \in Items |-> NoHandle]
    /\ settleCount = [i \in Items |-> 0]
    /\ execCount = [i \in Items |-> 0]
    /\ produced = [i \in Items |-> NoOutcome]
    /\ dispatchOrder = <<>>
    /\ dispAge = [i \in Items |-> -1]
    /\ fetchStarted = [i \in Items |-> 0]
    /\ client = IdleClient
    /\ app = initialState

\* ----------------------------------------------------------- drain loop

\* age of the most recent dispatch made so far (the window length if none)
LastDispatchAge ==
    IF Len(dispatchOrder) = 0 THEN config.windowMs
    ELSE dispAge[dispatchOrder[Len(dispatchOrder)]]

\* One pass of `while (this.queue.length > 0) { ... }` of activation l, from
\* the loop test to the next await or to the exit; q, reqs, p are the queue,
\* the timestamps and the processing flag the pass starts from.
Iterate(l, q, reqs, p) ==
    IF Len(q) = 0
    THEN \* loop exit: this.processing = false
         /\ queue' = q
         /\ requests' = reqs
         /\ processing' = FALSE
         /\ loops' = [loops EXCEPT ![l] = IdleLoop]
         /\ UNCHANGED <<execCount, dispatchOrder, dispAge, fetchStarted>>
    ELSE LET clean == CleanupOldRequests(reqs) IN
         IF CanMakeRequest(clean)
         THEN \* shift, record the timestamp, call request.execute(), await
              LET id == ShiftHead(q) IN
              /\ queue' = ShiftRest(q)
              /\ requests' = RecordRequest(clean)
              /\ processing' = p
              /\ loops' = [loops EXCEPT ![l] =
                     [pc |-> "exec", request |-> id, wait |-> 0, result |-> NoOutcome]]
              /\ execCount' = [execCount EXCEPT ![id] = @ + 1]
              /\ dispatchOrder' = Append(dispatchOrder, id)
              /\ dispAge' = [dispAge EXCEPT ![id] = 0]
              /\ fetchStarted' = [fetchStarted EXCEPT ![id] = @ + FetchesPerCall]
         ELSE \* await this.sleep(this.getWaitTime())
              /\ queue' = q
              /\ requests' = clean
              /\ processing' = p
              /\ loops' = [loops EXCEPT ![l] =
                     [pc |-> "sleep", request |-> 0, wait |-> GetWaitTime(clean),
                      result |-> NoOutcome]]
              /\ UNCHANGED <<execCount, dispatchOrder, dispAge, fetchStarted>>

\* execute(requestFn): build the QueuedRequest, push it, call processQueue();
\* processQueue returns at once when a loop is marked as running, otherwise it
\* sets the flag and runs the loop to its first await.
Execute ==
    /\ requestCounter < MaxItems
    /\ LET id == requestCounter + 1
           q == Push(queue, id)
       IN /\ requestCounter' = id
          /\ handle' = [handle EXCEPT ![id] = PendingHandle]
          /\ IF MayStartLoop(processing, q)
             THEN \E l \in Loops :
                     /\ loops[l].pc = "idle"
                     /\ \A k \in Loops : loops[k].pc = "idle" => l <= k
                     /\ Iterate(l, q, requests, TRUE)
             ELSE /\ queue' = q
                  /\ UNCHANGED <<requests, processing, loops, execCount,
                                 dispatchOrder, dispAge, fetchStarted>>
          /\ UNCHANGED <<config, client, app, settleCount, produced>>

\* the promise returned by request.execute() settles with outcome out
ExecFinish(l, out) ==
    /\ loops[l].pc = "exec"
    /\ loops' = [loops EXCEPT ![l].pc = "settle", ![l].result = out]
    /\ produced' = [produced EXCEPT ![loops[l].request] = out]
    /\ UNCHANGED <<config, client, app, requests, queue, processing, requestCounter, handle,
                   settleCount, execCount, dispatchOrder, dispAge, fetchStarted>>

\* the loop resumes after `await request.execute()`: resolve or reject the
\* request's promise, then go round the loop
Resume(l) ==
    /\ loops[l].pc = "settle"
    /\ LET id == loops[l].request
           out == loops[l].result
       IN /\ handle' = [handle EXCEPT ![id] = SettleWith(out)]
          /\ settleCount' = [settleCount EXCEPT ![id] = @ + 1]
          /\ Iterate(l, queue, RequestsAfterSettle(requests, out), processing)
    /\ UNCHANGED <<config, client, app, requestCounter, produced>>

\* the timer of sleep() fires and the loop goes round
Wake(l) ==
    /\ loops[l].pc = "sleep"
    /\ loops[l].wait = 0
    /\ Iterate(l, queue, requests, processing)
    /\ UNCHANGED <<config, client, app, requestCounter, handle, settleCount, produced>>

\* clearQueue(): reject every queued request, empty the queue, reset the flag
ClearQueue ==
    /\ handle' = [i \in Items |->
                    IF i \in ClearTargets(queue, loops)
                    THEN [st |-> "rejected", val |-> QueueClearedMsg]
                    ELSE handle[i]]
    /\ settleCount' = [i \in Items |->
                    IF i \in ClearTargets(queue, loops)
                    THEN settleCount[i] + 1 ELSE settleCount[i]]
    /\ queue' = ClearedQueue(queue)
    /\ processing' = ClearedProcessing(processing)
    /\ UNCHANGED <<config, client, app, requests, requestCounter, loops, execCount, produced,
                   dispatchOrder, dispAge, fetchStarted>>

\* getStatus(): its only effect on the state is cleanupOldRequests()
GetStatus ==
    /\ requests' = GetStatusRequests(requests)
    /\ UNCHANGED <<config, client, app, queue, processing, requestCounter, loops, handle,
                   settleCount, execCount, produced, dispatchOrder, dispAge,
                   fetchStarted>>

\* getQueueStats(): reads the queue, changes nothing
GetQueueStats ==
    /\ UNCHANGED vars

\* the clock advances by one tick
Tick ==
    /\ requests' = [k \in 1..Len(requests) |-> Min(requests[k] + 1, config.windowMs)]
    /\ dispAge' = [i \in Items |->
                    IF dispAge[i] < 0 THEN -1 ELSE Min(dispAge[i] + 1, config.windowMs)]
    /\ queue' = [k \in 1..Len(queue) |->
                    [queue[k] EXCEPT !.age = Min(@ + 1, config.windowMs)]]
    /\ loops' = [l \in Loops |->
                    IF loops[l].pc = "sleep"
                    THEN [loops[l] EXCEPT !.wait = Max(@ - 1, 0)]
                    ELSE loops[l]]
    /\ UNCHANGED <<config, client, app, processing, requestCounter, handle, settleCount,
                   execCount, produced, dispatchOrder, fetchStarted>>

Next ==
    \/ Execute
    \/ \E l \in Loops : \E out \in Outcomes(loops[l].request) : ExecFinish(l, out)
    \/ \E l \in Loops : Resume(l)
    \/ \E l \in Loops : Wake(l)
    \/ ClearQueue
    \/ GetStatus
    \/ GetQueueStats
    \/ Tick

Spec == Init /\ [][Next]_vars

\* executeFns terminate, continuations run, timers fire, the clock advances
Fairness ==
    /\ \A l \in Loops : WF_vars(\E out \in Outcomes(loops[l].request) : ExecFinish(l, out))
    /\ \A l \in Loops : WF_vars(Resume(l))
    /\ \A l \in Loops : WF_vars(Wake(l))
    /\ WF_vars(Tick)

FairSpec == Spec /\ Fairness

\* --------------------------------------------- burst on an idle scheduler

\* execute() called back-to-back: no tick of the clock since the first call
\* (the first call of a burst on an idle scheduler is dispatched at once)
BurstExecute ==
    /\ requestCounter = 0 \/ dispAge[1] = 0
    /\ Execute

\* the executeFn of the request held by l succeeds
BurstExecFinish(l) ==
    ExecFinish(l, [kind |-> "value", val |-> loops[l].request])

BurstNext ==
    \/ BurstExecute
    \/ \E l \in Loops : BurstExecFinish(l)
    \/ \E l \in Loops : Resume(l)
    \/ \E l \in Loops : Wake(l)
    \/ Tick

BurstFairness ==
    /\ \A l \in Loops : WF_vars(BurstExecFinish(l))
    /\ \A l \in Loops : WF_vars(Resume(l))
    /\ \A l \in Loops : WF_vars(Wake(l))
    /\ WF_vars(Tick)

BurstSpec == Init /\ [][BurstNext]_vars /\ BurstFairness

\* ------------------------------------------ work items of equal duration

\* a continuation of `await request.execute()` is queued as a microtask
MicrotaskPending == \E l \in Loops : loops[l].pc = "settle"

\* the executeFn dispatched by l has run for ExecDuration
Due(l) == loops[l].pc = "exec" /\ dispAge[loops[l].request] = ExecDuration

\* position of request i in the order of dispatch
DispatchIndex(i) == CHOOSE k \in 1..Len(dispatchOrder) : dispatchOrder[k] = i

\* Macrotasks (calls of execute and clearQueue, timers, completions of
\* executeFns) run only when the microtask queue is empty.
EqExecute == ~MicrotaskPending /\ Execute

\* An executeFn completes ExecDuration after its dispatch; of two dispatched
\* within the same tick the one dispatched first completes first.
EqExecFinish(l, out) ==
    /\ ~MicrotaskPending
    /\ Due(l)
    /\ \A k \in Loops :
          Due(k) => DispatchIndex(loops[l].request) <= DispatchIndex(loops[k].request)
    /\ ExecFinish(l, out)

EqWake(l) == ~MicrotaskPending /\ Wake(l)

EqClearQueue == ~MicrotaskPending /\ ClearQueue

\* the clock does not pass the moment a completion is due
EqTick ==
    /\ ~MicrotaskPending
    /\ \A l \in Loops : ~Due(l)
    /\ Tick

EqualDurNext ==
    \/ EqExecute
    \/ \E l \in Loops : \E out \in Outcomes(loops[l].request) : EqExecFinish(l, out)
    \/ \E l \in Loops : Resume(l)
    \/ \E l \in Loops : EqWake(l)
    \/ EqClearQueue
    \/ EqTick

EqualDurSpec == Init /\ [][EqualDurNext]_vars

\* ------------------------------------------------- no clearQueue() calls

\* The scheduler used without clearQueue(): the processing flag is then
\* reset only by the exit of the one drain loop.
NoClearNext ==
    \/ Execute
    \/ \E l \in Loops : \E out \in Outcomes(loops[l].request) : ExecFinish(l, out)
    \/ \E l \in Loops : Resume(l)
    \/ \E l \in Loops : Wake(l)
    \/ GetStatus
    \/ Tick

NoClearSpec == Init /\ [][NoClearNext]_vars

\* ------------------------------------------------------------ data client
\* PolygonApiService (src/src/services/polygonApi.ts) and the retry option of
\* the query hooks.  An error object is [isError, type, message]: isError is
\* `error instanceof Error`, message the list of the texts it is built from.

HTTP_STATUS ==
    [OK |-> 200, BAD_REQUEST |-> 400, UNAUTHORIZED |-> 401, FORBIDDEN |-> 403,
     NOT_FOUND |-> 404, TOO_MANY_REQUESTS |-> 429, INTERNAL_SERVER_ERROR |-> 500]

ERROR_MESSAGES ==
    [INVALID_API_KEY |->
        "Invalid or missing API key. Please check your configuration.",
     RATE_LIMIT_EXCEEDED |->
        "API rate limit exceeded. Please wait before making more requests."]

Endpoints == {"tickers", "aggs"}

\* what the provider and the network can do to one request: no answer before
\* the timeout, a transport failure, or a response; a response has a status
\* and, if the status is OK, a body: its "status" member (or a body that is
\* not JSON) and its "results" member (absent, [] or one element)
NoResponse == 0
Answers ==
    [transport : {"abort", "fail"}, http : {NoResponse},
     body : {"none"}, results : {"absent"}]
    \cup
    [transport : {"response"},
     http : {HTTP_STATUS[k] : k \in DOMAIN HTTP_STATUS} \ {HTTP_STATUS.OK},
     body : {"none"}, results : {"absent"}]
    \cup
    [transport : {"response"}, http : {HTTP_STATUS.OK},
     body : {"OK", "DELAYED", "ERROR", "malformed"},
     results : {"absent", "empty", "one"}]

\* String.prototype.includes on one text: of the texts the client builds
\* messages from, only RATE_LIMIT_EXCEEDED contains one of the substrings that
\* are looked for ('AppError', 'rate limit', 'API_RATE_LIMIT', 'UNAUTHORIZED')
TextIncludes(text, sub) ==
    text = ERROR_MESSAGES.RATE_LIMIT_EXCEEDED /\ sub = "rate limit"

\* message.includes(sub) for a message concatenated from texts
Includes(message, sub) == \E k \in 1..Len(message) : TextIncludes(message[k], sub)

\* createAppError: a plain object, not an instance of Error
CreateAppError(type, message) ==
    [isError |-> FALSE, type |-> type, message |-> message]

Thrown(e) == [kind |-> "error", val |-> e]
Returned(v) == [kind |-> "value", val |-> v]

\* fetchWithTimeout: the response, or a NETWORK_ERROR for an abort by the
\* timeout and for any other rejection of fetch
FetchWithTimeout(transport) ==
    IF transport = "response" THEN Returned("response")
    ELSE IF transport = "abort"
    THEN Thrown(CreateAppError("NETWORK_ERROR", <<"Request timeout after 10000ms">>))
    ELSE Thrown(CreateAppError("NETWORK_ERROR",
                               <<"Network request failed: ", "Failed to fetch">>))

\* handleHttpError: switch (response.status)
HandleHttpError(status, endpoint) ==
    IF status = HTTP_STATUS.TOO_MANY_REQUESTS
    THEN CreateAppError("API_RATE_LIMIT", <<ERROR_MESSAGES.RATE_LIMIT_EXCEEDED>>)
    ELSE IF status \in {HTTP_STATUS.UNAUTHORIZED, HTTP_STATUS.FORBIDDEN}
    THEN CreateAppError("UNAUTHORIZED", <<ERROR_MESSAGES.INVALID_API_KEY>>)
    ELSE IF status = HTTP_STATUS.NOT_FOUND
    THEN CreateAppError("INVALID_STOCK_SYMBOL",
                        IF endpoint = "aggs" THEN <<"Stock symbol ", "SYM", " not found">>
                        ELSE <<"Resource not found">>)
    ELSE CreateAppError("API_ERROR", <<"HTTP status">>)

\* transformAggregatesData: {symbol, data}; no metadata member is written
TransformAggregatesData(results) ==
    [symbol |-> "SYM", data |-> IF results = "one" THEN 1 ELSE 0,
     metadata |-> "undefined"]

\* variant: an empty result is thrown as NO_DATA_AVAILABLE
EmptyResultRejected(symbol) ==
    [kind |-> "error",
     val |-> CreateAppError("NO_DATA_AVAILABLE", <<"No data available">>)]

\* getStockPrices: `return { symbol: symbol, data: [] }` for absent or empty
\* results
EmptyResult(symbol) ==
    [kind |-> "value",
     val |-> [symbol |-> symbol, data |-> 0, metadata |-> "undefined"]]

\* the try block of the function handed to rateLimitManager.execute
TryBlock(endpoint, answer) ==
    LET response == FetchWithTimeout(answer.transport) IN
    IF response.kind = "error" THEN response
    ELSE IF answer.http # HTTP_STATUS.OK
    THEN Thrown(HandleHttpError(answer.http, endpoint))
    ELSE IF answer.body = "malformed"
    THEN \* response.json() rejects with a SyntaxError
         Thrown([isError |-> TRUE, type |-> "none", message |-> <<"Unexpected token">>])
    ELSE IF endpoint = "tickers"
    THEN IF answer.results = "absent"
         THEN Thrown(CreateAppError("NO_DATA_AVAILABLE",
                                    <<"No ticker data received from API">>))
         ELSE Returned([tickers |-> IF answer.results = "one" THEN 1 ELSE 0])
    ELSE IF answer.body # "OK"
    THEN Thrown(CreateAppError("API_ERROR", <<"API returned status: ", answer.body>>))
    ELSE IF answer.results \in {"absent", "empty"}
    THEN EmptyResult("SYM")
    ELSE Returned(TransformAggregatesData(answer.results))

\* the catch block: rethrow only an Error whose message contains 'AppError',
\* wrap everything else
CatchBlock(endpoint, error) ==
    IF error.isError /\ Includes(error.message, "AppError")
    THEN error
    ELSE CreateAppError("API_ERROR",
            <<IF endpoint = "tickers" THEN "Failed to fetch ticker list: "
              ELSE "Failed to fetch stock prices for SYM: ">> \o error.message)

\* the function handed to rateLimitManager.execute by getAllTickers
\* ("tickers") and getStockPrices ("aggs")
RequestFn(endpoint, answer) ==
    LET t == TryBlock(endpoint, answer) IN
    IF t.kind = "error" THEN Thrown(CatchBlock(endpoint, t.val)) ELSE t

\* retry: (failureCount, error) => ... of useAllTickers, useStockPrices and
\* useMultipleStockPrices
RetryPredicate(failureCount, error) ==
    IF Includes(error.message, "rate limit") THEN FALSE
    ELSE IF Includes(error.message, "API_RATE_LIMIT") THEN FALSE
    ELSE IF Includes(error.message, "UNAUTHORIZED") THEN FALSE
    ELSE failureCount < MaxRetries

\* API_CONFIG.apiKey: import.meta.env.VITE_POLYGON_API_KEY, a string or
\* undefined
ApiKeys == {"undefined", "", "key"}

\* variant: a missing key is handed on
GetSecureApiKeyLenient(apiKey) == [kind |-> "value", val |-> apiKey]

\* getSecureApiKey: `if (!apiKey) throw createAppError(UNAUTHORIZED, ...)`
GetSecureApiKey(apiKey) ==
    IF apiKey \in {"undefined", ""}
    THEN [kind |-> "error",
          val |-> CreateAppError("UNAUTHORIZED", <<ERROR_MESSAGES.INVALID_API_KEY>>)]
    ELSE [kind |-> "value", val |-> apiKey]

\* the constructor: baseUrl, then apiKey = getSecureApiKey(), then the
\* scheduler; a throw leaves no instance and no scheduler
Constructor(apiKey) ==
    LET key == GetSecureApiKey(apiKey) IN
    IF key.kind = "error"
    THEN [pc |-> "failed", thrown |-> key.val, hasScheduler |-> FALSE]
    ELSE IdleClient

schedulerVars == <<config, requests, queue, processing, requestCounter, loops,
                   handle, settleCount, execCount, produced, dispatchOrder,
                   dispAge, fetchStarted>>

\* the page is loaded anew: the module of the hooks is about to evaluate
\* `new PolygonApiService()` with the key of the environment
Load(apiKey) ==
    /\ client.pc \in {"idle", "failed"}
    /\ client' = [pc |-> "constructing", apiKey |-> apiKey]
    /\ UNCHANGED <<schedulerVars, app>>

\* `const polygonApi = new PolygonApiService()`
Construct ==
    /\ client.pc = "constructing"
    /\ client' = Constructor(client.apiKey)
    /\ UNCHANGED <<schedulerVars, app>>

\* a hook calls getAllTickers() or getStockPrices(): the request goes out
ClientCall(endpoint) ==
    /\ client.pc = "idle"
    /\ client' = [pc |-> "fetching", endpoint |-> endpoint]
    /\ UNCHANGED <<schedulerVars, app>>

\* the request ends with answer; the scheduler settles the caller's promise
\* with what the request function produced
ClientSettle(answer) ==
    /\ client.pc = "fetching"
    /\ client' = [pc |-> "settled", endpoint |-> client.endpoint, answer |-> answer,
                  classified |-> TryBlock(client.endpoint, answer),
                  handle |-> SettleWith(RequestFn(client.endpoint, answer))]
    /\ UNCHANGED <<schedulerVars, app>>

\* the query library asks the retry option about the rejection
RetryDecide(failureCount) ==
    /\ client.pc = "settled"
    /\ client.handle.st = "rejected"
    /\ client' = [pc |-> "decided", endpoint |-> client.endpoint,
                  answer |-> client.answer, classified |-> client.classified,
                  handle |-> client.handle, failureCount |-> failureCount,
                  retry |-> RetryPredicate(failureCount, client.handle.val)]
    /\ UNCHANGED <<schedulerVars, app>>

\* the call is over
ClientDone ==
    /\ client.pc \in {"settled", "decided"}
    /\ client' = IdleClient
    /\ UNCHANGED <<schedulerVars, app>>

ClientNext ==
    \/ \E apiKey \in ApiKeys : Load(apiKey)
    \/ Construct
    \/ \E endpoint \in Endpoints : ClientCall(endpoint)
    \/ \E answer \in Answers : ClientSettle(answer)
    \/ \E failureCount \in 0..MaxFailureCount : RetryDecide(failureCount)
    \/ ClientDone

ClientSpec == Init /\ [][ClientNext]_vars

\* ---------------------------------------------------------- app actions

\* dispatch(action): React replaces the state by appReducer(state, action)
Dispatch(action) ==
    /\ app' = appReducer(app, action)
    /\ UNCHANGED <<schedulerVars, client>>

AppNext == \E action \in AppActions : Dispatch(action)

AppSpec == Init /\ [][AppNext]_vars

\* ------------------------------------------------------------ properties

Settled(i) == handle[i].st \in {"resolved", "rejected"}
Cleared(i) == handle[i] = [st |-> "rejected", val |-> QueueClearedMsg]
InFlight == {l \in Loops : loops[l].pc \in {"exec", "settle"}}
Alive == {l \in Loops : loops[l].pc # "idle"}
InWindow == {i \in Items : dispAge[i] >= 0 /\ dispAge[i] < config.windowMs}
OwnValue(i) == [st |-> "resolved", val |-> i]
OwnError(i) == [st |-> "rejected", val |-> i]

\* C1  Quota invariant: at every instant the number of dispatch timestamps
\* inside the window (now - windowMs, now] is at most maxRequests.
QuotaInvariant == Cardinality(InWindow) <= config.maxRequests

\* C1 witness: the quota is used up and a queued request is waiting for it
QuotaFullWitness ==
    /\ Cardinality(InWindow) = config.maxRequests
    /\ Len(queue) > 0
    /\ \E l \in Loops : loops[l].pc = "sleep"

\* C2  (the claim as stated) at most one request is dispatched and not yet
\* settled at any time.
AtMostOneInFlight == Cardinality(InFlight) <= 1

\* C3  FIFO dispatch: requests are started in the order execute() was called
\* (ids are handed out in call order).
FifoDispatch ==
    \A a, b \in 1..Len(dispatchOrder) : a < b => dispatchOrder[a] < dispatchOrder[b]

\* C3 witness: three requests started, the last only after the first one's
\* timestamp left the window
FifoWitness ==
    /\ dispatchOrder = <<1, 2, 3>>
    /\ dispAge[1] = config.windowMs
    /\ dispAge[3] = 0

\* C4  Liveness: every request submitted through execute() is eventually
\* settled (resolved, rejected by its own failure, or rejected by clearQueue).
EventuallySettled ==
    \A i \in Items : (handle[i].st = "pending") ~> Settled(i)

\* C4 witness: a request that had to wait for the quota has been resolved
\* and everything submitted is settled
EventuallySettledWitness ==
    /\ requestCounter = MaxItems
    /\ \A i \in Items : Settled(i)
    /\ config.maxRequests = 1
    /\ handle[MaxItems] = OwnValue(MaxItems)

\* C5  Each completion handle is settled exactly once: resolve/reject is
\* called at most once per request, and never before it is submitted.
SettledOnce ==
    \A i \in Items :
        /\ settleCount[i] <= 1
        /\ Settled(i) <=> settleCount[i] = 1

\* C5 witness: one request was rejected by clearQueue, another settled by
\* the drain loop afterwards
SettledOnceWitness ==
    \E i, j \in Items :
        /\ i < j
        /\ Cleared(i) /\ settleCount[i] = 1
        /\ handle[j] = OwnValue(j) /\ settleCount[j] = 1

\* C6  Clear semantics: clearQueue() rejects every queued request with the
\* queue-cleared error and leaves the queue empty, and a request submitted
\* after a clear is settled (with its own outcome unless cleared again).
ClearSemantics ==
    /\ [][ClearQueue =>
            /\ Len(queue') = 0
            /\ \A i \in QueuedIds(queue) : Cleared(i)']_vars
    /\ \A i \in Items :
          (handle[i].st = "pending" /\ \E j \in 1..(i - 1) : Cleared(j))
             ~> (Cleared(i) \/ (execCount[i] = 1 /\ handle[i] \in {OwnValue(i), OwnError(i)}))

\* C6 witness: request 2 was cleared while queued behind a quota wait, and
\* request 3, submitted afterwards, was resolved with its own value
ClearSemanticsWitness ==
    /\ config.maxRequests = 1
    /\ Cleared(2) /\ execCount[2] = 0
    /\ handle[3] = OwnValue(3)
    /\ Len(queue) = 0

\* C7  (the claim as stated) at most one drain loop is alive at any time.
SingleDrainLoop == Cardinality(Alive) <= 1

\* C8  Failure still consumes quota: with maxRequests = 1, a request started
\* after a failed one is started no earlier than windowMs after the failed
\* one's dispatch.
FailureConsumesQuota ==
    [][(/\ config.maxRequests = 1
        /\ Len(dispatchOrder) > 0
        /\ Len(dispatchOrder') = Len(dispatchOrder) + 1
        /\ produced[dispatchOrder[Len(dispatchOrder)]].kind = "error")
       => dispAge[dispatchOrder[Len(dispatchOrder)]] >= config.windowMs]_vars

\* C8 witness: request 1 failed, request 2 has been started after it
FailureConsumesQuotaWitness ==
    /\ config.maxRequests = 1
    /\ handle[1] = OwnError(1)
    /\ dispatchOrder = <<1, 2>>
    /\ dispAge[2] = 0

\* C9  clearQueue() leaves a dispatched request alone: the step changes
\* neither its handle nor the loop awaiting it, and a request that was
\* started is never rejected with the queue-cleared error but settled with
\* what its executeFn produced.
InFlightUnaffected ==
    /\ [][ClearQueue =>
            \A l \in InFlight :
                /\ loops'[l] = loops[l]
                /\ handle'[loops[l].request] = handle[loops[l].request]]_vars
    /\ [](\A i \in Items : execCount[i] > 0 =>
            /\ ~Cleared(i)
            /\ Settled(i) => handle[i] \in {OwnValue(i), OwnError(i)})

\* C9 witness: request 2 was cleared while request 1 is still in flight
InFlightUnaffectedWitness ==
    /\ Cleared(2)
    /\ handle[1].st = "pending"
    /\ \E l \in Loops : loops[l].pc = "exec" /\ loops[l].request = 1

\* C10  Outcome pass-through without retry: a started request's executeFn is
\* called exactly once, and its handle resolves with the value or rejects
\* with the error the executeFn produced.
PassThrough ==
    \A i \in Items :
        /\ execCount[i] <= 1
        /\ (Settled(i) /\ ~Cleared(i)) =>
              /\ execCount[i] = 1
              /\ produced[i].kind = "value" => handle[i] = [st |-> "resolved", val |-> produced[i].val]
              /\ produced[i].kind = "error" => handle[i] = [st |-> "rejected", val |-> produced[i].val]
              /\ produced[i].kind # "none"

\* C10 witness: one request resolved with its value, another rejected with
\* its error
PassThroughWitness ==
    \E i, j \in Items :
        /\ handle[i] = OwnValue(i) /\ produced[i].kind = "value"
        /\ handle[j] = OwnError(j) /\ produced[j].kind = "error"

\* items submitted, neither dispatched nor cleared
StillQueued == {i \in Items : handle[i] = PendingHandle /\ execCount[i] = 0}

\* C13  Status accuracy: at every observation point getStatus() returns
\* requestsInWindow equal to the number of dispatch timestamps newer than
\* now - windowMs, maxRequests equal to the configured value, queueLength
\* equal to the number of not-yet-dispatched items, and canMakeRequest true
\* exactly when requestsInWindow < maxRequests.
StatusAccuracy ==
    LET s == GetStatusResult(requests, queue) IN
    /\ s.requestsInWindow = Cardinality(InWindow)
    /\ s.maxRequests = config.maxRequests
    /\ s.queueLength = Cardinality(StillQueued)
    /\ s.canMakeRequest <=> (Cardinality(InWindow) < config.maxRequests)

\* a status read while an expired timestamp is still stored, one is inside
\* the window and an item is queued
StatusAccuracyWitness ==
    /\ Len(requests) > Cardinality(InWindow)
    /\ InWindow # {}
    /\ StillQueued # {}

\* C14  getStatus().nextAvailableTime equals now when no dispatch timestamp
\* lies inside the current window, and otherwise equals the oldest in-window
\* dispatch timestamp plus windowMs (both sides taken as distances from now).
NextAvailableAccuracy ==
    LET t == GetStatusResult(requests, queue).nextAvailableTime IN
    /\ InWindow = {} => t = 0
    /\ InWindow # {} =>
          \E i \in InWindow :
              /\ \A j \in InWindow : dispAge[j] <= dispAge[i]
              /\ t = config.windowMs - dispAge[i]

\* two dispatches of different ages inside the window
NextAvailableWitness ==
    /\ \E i, j \in InWindow : dispAge[i] < dispAge[j]
    /\ GetStatusResult(requests, queue).nextAvailableTime > 0

\* C15  getQueueStats() reports totalQueued equal to the number of
\* still-queued (not dispatched, not cleared) items, oldestRequestAge equal
\* to the greatest waiting time among them and averageWaitTime their mean;
\* all three are 0 when the queue is empty, and the in-flight item is never
\* counted.
QueueStatsAccuracy ==
    LET st == GetQueueStatsResult(queue)
        waiting == {k \in 1..Len(queue) : queue[k].id \in StillQueued} IN
    /\ st.totalQueued = Cardinality(StillQueued)
    /\ QueuedIds(queue) = StillQueued
    /\ StillQueued = {} => /\ st.totalQueued = 0
                           /\ st.oldestRequestAge = 0
                           /\ st.averageWaitTime = <<0, 1>>
    /\ StillQueued # {} =>
          /\ \E k \in waiting :
                /\ st.oldestRequestAge = queue[k].age
                /\ \A m \in waiting : queue[m].age <= queue[k].age
          /\ st.averageWaitTime[2] = Cardinality(StillQueued)
          /\ st.averageWaitTime[1] = SeqSum(WaitTimes(queue))
    /\ \A l \in InFlight : loops[l].request \notin QueuedIds(queue)

\* two items of different waiting times queued behind an in-flight one
QueueStatsWitness ==
    /\ InFlight # {}
    /\ Len(queue) >= 2
    /\ queue[1].age > queue[2].age

\* C11  Burst over quota: when more than maxRequests successful calls are
\* submitted back-to-back to an idle scheduler, the first maxRequests are
\* dispatched without any quota wait, the (maxRequests+1)-th is dispatched
\* only after at least windowMs has elapsed since the first dispatch, and
\* every call eventually resolves with its own result.
BurstOverQuota ==
    /\ [](\A l \in Loops :
            loops[l].pc = "sleep" => Len(dispatchOrder) >= config.maxRequests)
    /\ [][(Len(dispatchOrder) = config.maxRequests
            /\ Len(dispatchOrder') = config.maxRequests + 1)
          => dispAge[dispatchOrder[1]] >= config.windowMs]_vars
    /\ \A i \in Items : (handle[i] = PendingHandle) ~> (handle[i] = OwnValue(i))

\* a burst of three on a quota of two: all dispatched in order, all resolved,
\* the third a window after the first
BurstWitness ==
    /\ config.maxRequests = 2
    /\ dispatchOrder = <<1, 2, 3>>
    /\ \A i \in Items : handle[i] = OwnValue(i)
    /\ dispAge[1] >= config.windowMs
    /\ dispAge[3] < config.windowMs

\* C12  Completion order equals submission order: for work items of equal
\* execution duration, if execute(A) was called before execute(B) and neither
\* is cleared, A's handle is settled before B's handle, under any
\* interleaving including clearQueue() calls in between.
CompletionOrder ==
    \A i, j \in Items :
        (i < j /\ Settled(j) /\ ~Cleared(j) /\ ~Cleared(i)) => Settled(i)

\* requests 1 and 3 were dispatched within the same tick by two drain loops,
\* request 2 was cleared in between, and both have completed
CompletionOrderWitness ==
    /\ Cleared(2)
    /\ Settled(1) /\ ~Cleared(1)
    /\ Settled(3) /\ ~Cleared(3)
    /\ dispAge[1] = dispAge[3]
    /\ dispAge[1] < config.windowMs

\* provider requests started inside the current window
FetchesInWindow ==
    SeqSum([i \in 1..MaxItems |-> IF i \in InWindow THEN fetchStarted[i] ELSE 0])

Answered == client.pc \in {"settled", "decided"}

\* C17  Status-code classification: when the provider answers a domain call
\* with HTTP 429 the caller's handle is rejected with an error of kind
\* API_RATE_LIMIT; 401 or 403 yields UNAUTHORIZED, 404 yields
\* INVALID_STOCK_SYMBOL, and every other non-success status yields API_ERROR;
\* the kind seen by the caller is the kind assigned by the classifier.
StatusClassification ==
    (Answered /\ client.answer.transport = "response"
              /\ client.answer.http # HTTP_STATUS.OK)
    => /\ client.handle.st = "rejected"
       /\ client.handle.val.type =
            (CASE client.answer.http = HTTP_STATUS.TOO_MANY_REQUESTS -> "API_RATE_LIMIT"
               [] client.answer.http \in {HTTP_STATUS.UNAUTHORIZED, HTTP_STATUS.FORBIDDEN}
                    -> "UNAUTHORIZED"
               [] client.answer.http = HTTP_STATUS.NOT_FOUND -> "INVALID_STOCK_SYMBOL"
               [] OTHER -> "API_ERROR")
       /\ client.handle.val.type = client.classified.val.type

\* C18  Retry policy: for an error produced by the data client, the retry
\* predicate returns false whenever the error kind is API_RATE_LIMIT or
\* UNAUTHORIZED (for every failureCount), and for every other kind it returns
\* false once failureCount >= 2.
RetryPolicy ==
    client.pc = "decided"
    => /\ client.classified.val.type \in {"API_RATE_LIMIT", "UNAUTHORIZED"}
            => ~client.retry
       /\ client.handle.val.type \in {"API_RATE_LIMIT", "UNAUTHORIZED"}
            => ~client.retry
       /\ client.failureCount >= 2 => ~client.retry

\* C19  A transport failure or an expiry of the call's timeout aborts the
\* request and the caller's handle is rejected with an error of kind
\* NETWORK_ERROR.
NetworkErrorSurfaced ==
    (Answered /\ client.answer.transport \in {"abort", "fail"})
    => /\ client.handle.st = "rejected"
       /\ client.handle.val.type = "NETWORK_ERROR"

\* C20  Delayed data is not an error: when the aggregates endpoint answers
\* with HTTP success and the delayed-data status carrying one bar,
\* getStockPrices resolves with exactly that one normalized bar and a
\* metadata flag marking the data as delayed.
DelayedDataResolved ==
    (Answered /\ client.endpoint = "aggs"
              /\ client.answer.transport = "response"
              /\ client.answer.http = HTTP_STATUS.OK
              /\ client.answer.body = "DELAYED"
              /\ client.answer.results = "one")
    => /\ client.handle.st = "resolved"
       /\ client.handle.val.data = 1
       /\ client.handle.val.metadata = [isDelayed |-> TRUE]

\* C21  Empty result is success: when the aggregates endpoint answers with
\* success status and results equal to the empty list, getStockPrices
\* resolves with the requested symbol and an empty record set, and the handle
\* is not rejected.
EmptyResultIsSuccess ==
    (Answered /\ client.endpoint = "aggs"
              /\ client.answer.http = HTTP_STATUS.OK
              /\ client.answer.body = "OK"
              /\ client.answer.results = "empty")
    => /\ client.handle.st = "resolved"
       /\ client.handle.val.symbol = "SYM"
       /\ client.handle.val.data = 0

\* getStockPrices has resolved on an answer with results: []
EmptyResultWitness ==
    /\ client.pc = "settled"
    /\ client.endpoint = "aggs"
    /\ client.answer.body = "OK"
    /\ client.answer.results = "empty"
    /\ client.handle.st = "resolved"

\* C22  For both provider endpoints, a success response whose results field
\* is absent or empty is a valid non-error outcome: the domain call resolves
\* with an empty result and never rejects.
AbsentOrEmptyIsSuccess ==
    (Answered /\ client.answer.http = HTTP_STATUS.OK
              /\ client.answer.body = "OK"
              /\ client.answer.results \in {"absent", "empty"})
    => /\ client.handle.st = "resolved"
       /\ client.endpoint = "aggs" => client.handle.val.data = 0
       /\ client.endpoint = "tickers" => client.handle.val.tickers = 0

SelectedStocksBounded ==
    LET stocks == app.selectedStocks IN
    /\ Len(stocks) <= 3
    /\ \A k, m \in 1..Len(stocks) : stocks[k] = stocks[m] => k = m
    /\ \A symbol \in Symbols :
          ((\E k \in 1..Len(stocks) : stocks[k] = symbol) \/ Len(stocks) = 3)
          => LET after == appReducer(app, [type |-> "ADD_STOCK", payload |-> symbol])
             IN after.selectedStocks = stocks /\ after.error # NoError

\* three stocks are selected and a further ADD_STOCK was refused
SelectedStocksWitness ==
    /\ Len(app.selectedStocks) = 3
    /\ app.error = <<"Maximum ", "MAX_STOCKS", " stocks allowed">>

\* activation l suspends in sleep() in this step
EntersSleep(l) ==
    /\ loops'[l].pc = "sleep"
    /\ loops[l].pc # "sleep" \/ loops'[l].wait > loops[l].wait

BusyWhileQueued ==
    Len(queue) > 0 => (processing /\ Alive # {})

\* work queued after a clearQueue() while two drain loops are alive
BusyWhileQueuedWitness ==
    /\ Len(queue) > 0
    /\ \E i \in Items : Cleared(i)
    /\ Cardinality(Alive) >= 2

\* C27  The quota invariant survives clearQueue(): even when clearQueue() is
\* called while a drain loop is suspended and new work is then submitted, no
\* dispatch ever occurs while maxRequests timestamps lie inside the current
\* window.
QuotaSurvivesClear ==
    [][Len(dispatchOrder') > Len(dispatchOrder)
       => Cardinality(InWindow) < config.maxRequests]_vars

\* after a clearQueue() a second drain loop was started by new work and was
\* refused admission while the first is still suspended in its call
QuotaSurvivesClearWitness ==
    /\ \E i \in Items : Cleared(i)
    /\ \E l \in Loops : loops[l].pc = "exec"
    /\ \E l \in Loops : loops[l].pc = "sleep"
    /\ Cardinality(InWindow) = config.maxRequests

\* C28  One wait suffices: with a single drain loop, after the loop has slept
\* the computed wait interval the next prune removes the oldest timestamp and
\* the admission check succeeds, so the head item is dispatched on the first
\* re-check.
OneWaitSuffices ==
    [][\A l \in Loops :
         (loops[l].pc = "sleep" /\ loops[l].wait = 0 /\ loops'[l] # loops[l])
         => /\ loops'[l].pc = "exec"
            /\ loops'[l].request = Head(queue).id
            /\ dispatchOrder' = Append(dispatchOrder, Head(queue).id)
            /\ \A k \in 1..Len(requests') : requests'[k] < config.windowMs]_vars

\* a request beyond the quota has just been dispatched
OneWaitWitness ==
    /\ Len(dispatchOrder) > config.maxRequests
    /\ \E l \in Loops : /\ loops[l].pc = "exec"
                        /\ dispAge[loops[l].request] = 0
    /\ Cardinality(InWindow) = config.maxRequests

\* C29  A work item rejected by clearQueue() is never executed afterwards:
\* its executeFn is not invoked and it consumes no quota slot; a drain loop
\* that resumes after the clear and finds the queue empty exits without
\* dispatching anything.
ClearedNeverRuns ==
    /\ [](\A i \in Items :
            Cleared(i) => (execCount[i] = 0 /\ dispAge[i] < 0 /\ fetchStarted[i] = 0))
    /\ [][\A l \in Loops :
            (loops[l].pc \in {"sleep", "settle"} /\ loops'[l] # loops[l]
               /\ loops'[l].pc # loops[l].pc /\ Len(queue) = 0)
            => (loops'[l] = IdleLoop /\ dispatchOrder' = dispatchOrder
                  /\ requests' = requests)]_vars

\* a request was cleared while the loop was suspended; the loop has since
\* exited and the cleared request was never dispatched
ClearedNeverRunsWitness ==
    /\ requestCounter = 2
    /\ Cleared(2)
    /\ Settled(1) /\ ~Cleared(1)
    /\ Alive = {}
    /\ dispatchOrder = <<1>>

\* C30  getStatus() and getQueueStats() are observation-only with respect to
\* scheduling: getQueueStats() changes no state, and getStatus() changes
\* nothing except dropping dispatch timestamps that are already outside the
\* window; neither changes the queue, the processing flag, or the outcome of
\* any later admission decision.
ObservationOnly ==
    /\ [][GetStatus =>
            /\ queue' = queue /\ processing' = processing /\ loops' = loops
            /\ handle' = handle
            /\ requests' = Filter(requests, config.windowMs)
            /\ (Len(Filter(requests', config.windowMs)) < config.maxRequests)
                 <=> (Len(Filter(requests, config.windowMs)) < config.maxRequests)
            /\ GetWaitTime(Filter(requests', config.windowMs))
                 = GetWaitTime(Filter(requests, config.windowMs))]_vars
    /\ [][GetQueueStats => UNCHANGED vars]_vars

\* only getStatus() can have emptied the timestamp list after a dispatch
ObservationOnlyWitness ==
    /\ Len(dispatchOrder) > 0
    /\ requests = <<>>
    /\ Alive = {}

====
